---- MODULE Spec2Model ----
(***************************************************************************)
(* A model of gooseboi/jsonparser: the character-level tokenizer           *)
(* (src/src/tokenizer.rs) and the recursive-descent parser with its        *)
(* Display implementation (src/src/parser.rs).                             *)
(*                                                                         *)
(* A character is a one-element string; a text is a sequence of them.      *)
(* The tokenizer's Peekable<Chars> is the source text `src` together with  *)
(* the number `pos` of characters the iterator has already yielded.        *)
(* Rust's call stack in parse_object / parse_array is the variable `stack`.*)
(***************************************************************************)
EXTENDS Integers, Sequences, FiniteSets, TLC

VARIABLES
    src,        \* the text handed to Tokenizer::from_str
    tokenizer,  \* Tokenizer { iter (as pos), col, line }
    last,       \* what the latest next_token call returned
    mode,       \* "tokens": the caller drives next_token; "parse": parse() does
    stack,      \* the active parse_object / parse_array calls, innermost last
    result,     \* what parse returned, once it has
    pass,       \* 1: parsing the given text; 2: parsing the Display output
    first,      \* the value of pass 1, kept for the comparison of pass 2
    doc         \* the document tree the text was written from, if it was

vars == <<src, tokenizer, last, mode, stack, result, pass, first, doc>>

----------------------------------------------------------------------------
(* Characters *)

QUOTE == "\""
BSLASH == "\\"
NL == "\n"
SP == " "
NONASCII == "U+00E9"    \* one non-ASCII alphabetic character

Digits == <<"0", "1", "2", "3", "4", "5", "6", "7", "8", "9">>

IsDigit(c) == \E i \in 1..Len(Digits) : Digits[i] = c

DigitVal(c) == (CHOOSE i \in 1..Len(Digits) : Digits[i] = c) - 1

\* char::is_whitespace, on the characters of the model
IsWhitespace(c) == c \in {SP, NL}

IsAscii(c) == c # NONASCII

\* is_num_char: not alphabetic unless e/E, and ASCII alphanumeric or . - +
is_num_char(c) == IsDigit(c) \/ c \in {"e", "E", ".", "-", "+"}

----------------------------------------------------------------------------
(* Tokens, errors and results of next_token *)

Loc(tk) == [col |-> tk.col, line |-> tk.line]

NoLoc == [col |-> 0, line |-> 0]

Token(kind, text, loc) == [tag |-> "ok", kind |-> kind, text |-> text, loc |-> loc]

ParsingError(kind, loc) == [tag |-> "err", kind |-> kind, text |-> <<>>, loc |-> loc]

\* unreachable!() aborts the thread: no Result is returned
Panic == [tag |-> "panic", kind |-> "unreachable", text |-> <<>>, loc |-> NoLoc]

NoCall == [tag |-> "none", kind |-> "none", text |-> <<>>, loc |-> NoLoc]

\* Tokenizer::from_iter
from_str == [pos |-> 0, col |-> 0, line |-> 1]

cur_loc(tk) == Loc(tk)

----------------------------------------------------------------------------
(* The tokenizer *)

RECURSIVE skip_whitespace(_, _)
skip_whitespace(s, tk) ==
    IF tk.pos < Len(s) /\ IsWhitespace(s[tk.pos + 1])
    THEN skip_whitespace(s,
            IF s[tk.pos + 1] = NL
            THEN [pos |-> tk.pos + 1, col |-> 0, line |-> tk.line + 1]
            ELSE [pos |-> tk.pos + 1, col |-> tk.col + 1, line |-> tk.line])
    ELSE tk

\* Tokenizer::peek: the tokenizer after the skip, and the character it sees
\* (<<>> for None, <<c>> for Some(c))
Peeked(s, t) == [tk |-> t, c |-> IF t.pos < Len(s) THEN <<s[t.pos + 1]>> ELSE <<>>]

peek(s, tk) == Peeked(s, skip_whitespace(s, tk))

IsDelimiter(c) == c \in {",", "}", "]"}

\* A faulty ValIfDelimited: a literal is accepted whatever follows it.
ValIfDelimited_NoCheck(p, text, loc) == [tk |-> p.tk, res |-> Token("Val", text, loc)]

\* tokenize_val after its peek p
ValIfDelimited(p, text, loc) ==
    IF p.c # <<>> /\ IsDelimiter(p.c[1])
    THEN [tk |-> p.tk, res |-> Token("Val", text, loc)]
    ELSE [tk |-> p.tk, res |-> ParsingError("MissingEndingComma", cur_loc(p.tk))]

tokenize_val(s, tk, text, loc) == ValIfDelimited(peek(s, tk), text, loc)

\* The quoted-run loop: iter.next_if (no whitespace skip) takes every
\* character but an unescaped quote.
RECURSIVE QuotedRun(_, _, _, _)
QuotedRun(s, tk, was_escape, text) ==
    IF tk.pos < Len(s) /\ (s[tk.pos + 1] # QUOTE \/ was_escape)
    THEN QuotedRun(s, [tk EXCEPT !.pos = @ + 1, !.col = @ + 1],
                   s[tk.pos + 1] = BSLASH, Append(text, s[tk.pos + 1]))
    ELSE [tk |-> tk, text |-> text]

\* The numeric-run loop: iter.next_if(is_num_char), no whitespace skip.
RECURSIVE NumRun(_, _, _)
NumRun(s, tk, text) ==
    IF tk.pos < Len(s) /\ is_num_char(s[tk.pos + 1])
    THEN NumRun(s, [tk EXCEPT !.pos = @ + 1, !.col = @ + 1], Append(text, s[tk.pos + 1]))
    ELSE [tk |-> tk, text |-> text]

\* The bare-word loop: self.next_if skips whitespace before every test.
RECURSIVE WordRun(_, _, _)
WordRun(s, tk, text) ==
    LET t == skip_whitespace(s, tk)
    IN  IF t.pos < Len(s) /\ ~IsDelimiter(s[t.pos + 1])
        THEN WordRun(s, [t EXCEPT !.pos = @ + 1, !.col = @ + 1], Append(text, s[t.pos + 1]))
        ELSE [tk |-> t, text |-> text]

\* The comma branch of next_token; t1 is the tokenizer after the comma.
\* The comma branch after its peek p; loc is the location of the comma
CommaLookahead(p, loc) ==
    IF p.c # <<>> /\ p.c[1] \in {"}", "]"}
    THEN [tk |-> p.tk, res |-> ParsingError("InvalidTrailingComma", loc)]
    ELSE [tk |-> p.tk, res |-> Token("Comma", <<>>, loc)]

CommaBranch(s, t1) == CommaLookahead(peek(s, t1), cur_loc(t1))

\* The quoted-run branch of next_token; t1 is the tokenizer after the quote.
\* After the closing quote and the peek p: an Ident before a colon, else a
\* Val with the quotes put back
IdentOrVal(p, text, loc) ==
    IF p.c = <<":">>
    THEN [tk |-> p.tk, res |-> Token("Ident", text, loc)]
    ELSE [tk |-> p.tk, res |-> Token("Val", <<QUOTE>> \o text \o <<QUOTE>>, loc)]

\* After the quoted-run loop: the closing quote, or unreachable!()
CloseQuote(s, run, loc) ==
    IF run.tk.pos < Len(s) /\ s[run.tk.pos + 1] = QUOTE
    THEN IdentOrVal(peek(s, [run.tk EXCEPT !.pos = @ + 1, !.col = @ + 1]), run.text, loc)
    ELSE [tk |-> run.tk, res |-> Panic]

QuoteBranch(s, t1) == CloseQuote(s, QuotedRun(s, t1, FALSE, <<>>), cur_loc(t1))

\* A numeric or bare-word run, then tokenize_val on its text
NumberBranchOfToken(s, run, loc) == tokenize_val(s, run.tk, run.text, loc)

WithAt(r, at) == [tk |-> r.tk, res |-> r.res, at |-> at]

\* next_token after iter.next() yielded c; t1 is the tokenizer after it
Dispatch(s, c, t1) ==
    CASE c = "{" -> [tk |-> t1, res |-> Token("OpenBracket", <<>>, cur_loc(t1))]
      [] c = "}" -> [tk |-> t1, res |-> Token("ClosedBracket", <<>>, cur_loc(t1))]
      [] c = "[" -> [tk |-> t1, res |-> Token("OpenSqBracket", <<>>, cur_loc(t1))]
      [] c = "]" -> [tk |-> t1, res |-> Token("ClosedSqBracket", <<>>, cur_loc(t1))]
      [] c = ":" -> [tk |-> t1, res |-> Token("Colon", <<>>, cur_loc(t1))]
      [] c = "," -> CommaBranch(s, t1)
      [] c = QUOTE -> QuoteBranch(s, t1)
      [] IsDigit(c) -> NumberBranchOfToken(s, NumRun(s, t1, <<c>>), cur_loc(t1))
      [] OTHER ->
           IF IsAscii(c)
           THEN NumberBranchOfToken(s, WordRun(s, t1, <<c>>), cur_loc(t1))
           ELSE [tk |-> t1, res |-> ParsingError("UnsupportedToken", cur_loc(t1))]

\* next_token after its skip_whitespace
AfterSkip(s, t0) ==
    IF t0.pos >= Len(s)
    THEN [tk |-> t0, res |-> Token("End", <<>>, cur_loc(t0)), at |-> 0]
    ELSE WithAt(Dispatch(s, s[t0.pos + 1], [t0 EXCEPT !.pos = @ + 1, !.col = @ + 1]),
                t0.pos + 1)

\* Tokenizer::next_token: the tokenizer after the call, what it returned, and
\* `at`, the index in s of the character iter.next() yielded (0 at the end).
next_token(s, tk) == AfterSkip(s, skip_whitespace(s, tk))

----------------------------------------------------------------------------
(* Values *)

JNull == [t |-> "Null"]

JBoolean(b) == [t |-> "Boolean", b |-> b]

JString(str) == [t |-> "String", s |-> str]

\* A u64 is its decimal digits, without leading zeros
UnsignedInt(n) == [t |-> "Number", sub |-> "UnsignedInt", n |-> n]

\* An i64 is its sign and the decimal digits of its magnitude (zero has no sign)
SignedInt(neg, n) == [t |-> "Number", sub |-> "SignedInt", neg |-> neg, n |-> n]

\* An f64 of the model is the decimal m * 10^e, m without trailing zeros:
\* the literals of the model are too short to reach the precision or the
\* range of an f64. Zero is m = 0, e = 0, whatever its sign (-0.0 == 0.0).
RECURSIVE Float(_, _)
Float(m, e) ==
    IF m = 0 THEN [t |-> "Number", sub |-> "Float", m |-> 0, e |-> 0]
    ELSE IF m % 10 = 0 THEN Float(m \div 10, e + 1)
    ELSE [t |-> "Number", sub |-> "Float", m |-> m, e |-> e]

\* An infinite f64, by its sign
FloatInf(neg) == [t |-> "Number", sub |-> "Float", inf |-> neg]

JArray(arr) == [t |-> "Array", a |-> arr]

\* An IndexMap is the sequence of its <<key, value>> entries, in order.
JObject(map) == [t |-> "Object", o |-> map]

Ok(v) == [tag |-> "ok", val |-> v]

NoResult == [tag |-> "none"]

----------------------------------------------------------------------------
(* str::parse for u64, i64 and f64 *)

AllDigits(t) == \A i \in 1..Len(t) : IsDigit(t[i])

RECURSIVE DigitsVal(_)
DigitsVal(t) ==
    IF t = <<>> THEN 0
    ELSE 10 * DigitsVal(SubSeq(t, 1, Len(t) - 1)) + DigitVal(t[Len(t)])

\* The least index of t holding a character of S, or 0
FirstIndex(t, S) ==
    IF \E i \in 1..Len(t) : t[i] \in S
    THEN CHOOSE i \in 1..Len(t) : t[i] \in S /\ \A j \in 1..(i - 1) : t[j] \notin S
    ELSE 0

\* Digits without their leading zeros
RECURSIVE Canonical(_)
Canonical(t) == IF Len(t) > 1 /\ t[1] = "0" THEN Canonical(Tail(t)) ELSE t

\* a <= b, for canonical digits
RECURSIVE DigitsLE(_, _)
DigitsLE(a, b) ==
    IF Len(a) # Len(b) THEN Len(a) < Len(b)
    ELSE IF a = <<>> THEN TRUE
    ELSE IF a[1] # b[1] THEN DigitVal(a[1]) < DigitVal(b[1])
    ELSE DigitsLE(Tail(a), Tail(b))

\* u64::MAX = 18446744073709551615
U64Max == <<"1", "8", "4", "4", "6", "7", "4", "4", "0", "7",
            "3", "7", "0", "9", "5", "5", "1", "6", "1", "5">>

\* i64::MAX = 9223372036854775807, and the magnitude of i64::MIN
I64Max == <<"9", "2", "2", "3", "3", "7", "2", "0", "3", "6",
            "8", "5", "4", "7", "7", "5", "8", "0", "7">>
I64MinMag == <<"9", "2", "2", "3", "3", "7", "2", "0", "3", "6",
               "8", "5", "4", "7", "7", "5", "8", "0", "8">>

\* <<n>> for Ok(n), <<>> for Err: an optional `+`, then one digit or more,
\* and no overflow
parse_u64(t) ==
    LET body == IF t # <<>> /\ t[1] = "+" THEN Tail(t) ELSE t
    IN  IF body # <<>> /\ AllDigits(body) /\ DigitsLE(Canonical(body), U64Max)
        THEN <<UnsignedInt(Canonical(body))>> ELSE <<>>

\* an optional `+` or `-`, then one digit or more, and no overflow
parse_i64(t) ==
    LET signed == t # <<>> /\ t[1] \in {"+", "-"}
        neg == signed /\ t[1] = "-"
        body == IF signed THEN Tail(t) ELSE t
    IN  IF /\ body # <<>> /\ AllDigits(body)
           /\ DigitsLE(Canonical(body), IF neg THEN I64MinMag ELSE I64Max)
        THEN <<SignedInt(neg /\ Canonical(body) # <<"0">>, Canonical(body))>>
        ELSE <<>>

\* The exponent of a float: an optional sign, then one digit or more
ParseExp(t) ==
    LET signed == t # <<>> /\ t[1] \in {"+", "-"}
        body == IF signed THEN Tail(t) ELSE t
    IN  IF body # <<>> /\ AllDigits(body)
        THEN <<IF signed /\ t[1] = "-" THEN 0 - DigitsVal(body) ELSE DigitsVal(body)>>
        ELSE <<>>

\* The decimal digits of a natural number
RECURSIVE FmtNat(_)
FmtNat(n) == IF n < 10 THEN <<Digits[n + 1]>> ELSE Append(FmtNat(n \div 10), Digits[(n % 10) + 1])

\* f64::MAX = 1.7976931348623157e308
F64MaxDigits == <<"1", "7", "9", "7", "6", "9", "3", "1", "3", "4",
                  "8", "6", "2", "3", "1", "5", "7">>
F64MaxExp == 308

\* The f64 nearest to m * 10^e (m >= 0, of at most 17 digits), with its sign:
\* infinite beyond f64::MAX, zero below the least subnormal
Nearest(neg, m, e) ==
    LET d == FmtNat(m)
        top == e + Len(d) - 1
    IN  IF m = 0 \/ top < 0 - (F64MaxExp + 16) THEN Float(0, 0)
        ELSE IF \/ top > F64MaxExp
                \/ top = F64MaxExp /\ ~DigitsLE(d, SubSeq(F64MaxDigits, 1, Len(d)))
        THEN FloatInf(neg)
        ELSE Float(IF neg THEN 0 - m ELSE m, e)

\* Sign? (Digit+ | Digit+ '.' Digit* | Digit* '.' Digit+) ([eE] Sign? Digit+)?
parse_f64(t) ==
    LET signed == t # <<>> /\ t[1] \in {"+", "-"}
        neg == signed /\ t[1] = "-"
        u == IF signed THEN Tail(t) ELSE t
        ei == FirstIndex(u, {"e", "E"})
        mant == IF ei = 0 THEN u ELSE SubSeq(u, 1, ei - 1)
        ex == IF ei = 0 THEN <<>> ELSE SubSeq(u, ei + 1, Len(u))
        di == FirstIndex(mant, {"."})
        int == IF di = 0 THEN mant ELSE SubSeq(mant, 1, di - 1)
        frac == IF di = 0 THEN <<>> ELSE SubSeq(mant, di + 1, Len(mant))
        exv == ParseExp(ex)
        m == DigitsVal(int \o frac)
    IN  IF /\ AllDigits(int) /\ AllDigits(frac) /\ Len(int) + Len(frac) >= 1
           /\ (ei # 0 => exv # <<>>)
        THEN <<Nearest(neg, m, (IF ei = 0 THEN 0 ELSE exv[1]) - Len(frac))>>
        ELSE <<>>

----------------------------------------------------------------------------
(* parse_val on a Val token *)

Chars_true == <<"t", "r", "u", "e">>
Chars_false == <<"f", "a", "l", "s", "e">>
Chars_null == <<"n", "u", "l", "l">>

\* chars.iter().zip(word.chars()).all(|(a, b)| a == b): zip stops at the shorter
ZipAll(chars, word) ==
    \A i \in 1..(IF Len(chars) < Len(word) THEN Len(chars) ELSE Len(word)) :
        chars[i] = word[i]

\* A faulty NumberBranch: the sub-type follows the value's sign test only.
NumberBranch_NoFloat(chars, loc) ==
    IF chars[1] = "-"
    THEN LET num == parse_i64(chars)
         IN  IF num # <<>> THEN Ok(num[1])
             ELSE ParsingError("InvalidToken", loc)
    ELSE LET num == parse_u64(chars)
         IN  IF num # <<>> THEN Ok(num[1])
             ELSE ParsingError("InvalidToken", loc)

\* The number branch of parse_val: chars are all numeric characters
NumberBranch(chars, loc) ==
    IF \E i \in 1..Len(chars) : chars[i] \in {"e", "E", "."}
    THEN LET num == parse_f64(chars)
         IN  IF num # <<>> THEN Ok(num[1]) ELSE ParsingError("InvalidToken", loc)
    ELSE IF chars[1] = "-"
    THEN LET num == parse_i64(chars)
         IN  IF num # <<>> THEN Ok(num[1])
             ELSE ParsingError("InvalidToken", loc)
    ELSE LET num == parse_u64(chars)
         IN  IF num # <<>> THEN Ok(num[1])
             ELSE ParsingError("InvalidToken", loc)

\* The true / false / null branch of parse_val
WordBranch(chars, loc) ==
    IF Len(chars) = 4 /\ ZipAll(chars, Chars_true) THEN Ok(JBoolean(TRUE))
    ELSE IF Len(chars) = 5 /\ ZipAll(chars, Chars_false) THEN Ok(JBoolean(FALSE))
    ELSE IF ZipAll(chars, Chars_null) THEN Ok(JNull)
    ELSE ParsingError("InvalidToken", loc)

parse_string(str) == Ok(JString(str))

\* parse_val, TokenKind::Val(str): the text of a Val token is never empty
ParseLiteral(chars, loc) ==
    IF chars[1] = QUOTE /\ chars[Len(chars)] = QUOTE
    THEN IF Len(chars) = 1 THEN Panic    \* chars[1..0]: slice index out of order
         ELSE parse_string(SubSeq(chars, 2, Len(chars) - 1))
    ELSE IF \A i \in 1..Len(chars) : is_num_char(chars[i])
    THEN NumberBranch(chars, loc)
    ELSE WordBranch(chars, loc)

\* parse_val: Ok / Err / Panic, or the call it makes (parse_array, parse_object)
Call(kind) == [tag |-> "call", kind |-> kind]

parse_val(val) ==
    CASE val.kind = "Val" -> ParseLiteral(val.text, val.loc)
      [] val.kind = "OpenSqBracket" -> Call("Array")
      [] val.kind = "OpenBracket" -> Call("Object")
      [] OTHER -> ParsingError("InvalidToken", val.loc)

\* Tokenizer::expect_token
ExpectKind(r, kind) ==
    IF r.res.tag = "ok" /\ r.res.kind # kind
    THEN [r EXCEPT !.res = ParsingError("UnexpectedToken", r.res.loc)]
    ELSE r

expect_token(s, tk, kind) == ExpectKind(next_token(s, tk), kind)

\* parse_ident: the tokenizer and the latest next_token call after it, and
\* what parse_val made of the token after the colon
ValueOf(n) ==
    [tk |-> n.tk, call |-> n, out |-> IF n.res.tag # "ok" THEN n.res ELSE parse_val(n.res)]

AfterColon(s, c) ==
    IF c.res.tag # "ok" THEN [tk |-> c.tk, call |-> c, out |-> c.res]
    ELSE ValueOf(next_token(s, c.tk))

parse_ident(s, tk) == AfterColon(s, expect_token(s, tk, "Colon"))

\* A faulty insert: a repeated key moves to the end of the map.
insert_MoveToEnd(map, k, v) ==
    Append(SelectSeq(map, LAMBDA e : e[1] # k), <<k, v>>)

\* IndexMap::insert: a new key is appended; a known key keeps its place and
\* takes the new value
insert(map, k, v) ==
    IF \E i \in 1..Len(map) : map[i][1] = k
    THEN [i \in 1..Len(map) |-> IF map[i][1] = k THEN <<k, v>> ELSE map[i]]
    ELSE Append(map, <<k, v>>)

----------------------------------------------------------------------------
(* Display for JsonVal *)

RECURSIVE Repeat(_, _)
Repeat(text, n) == IF n <= 0 THEN <<>> ELSE text \o Repeat(text, n - 1)

\* print_indent: four spaces for each level
print_indent(depth) == Repeat(<<SP, SP, SP, SP>>, depth)

\* write!(f, "{}", n) for a signed integer
FmtInt(neg, n) == IF neg THEN <<"-">> \o n ELSE n

\* write!(f, "{}", n) for the f64 m * 10^e: plain decimal, never an exponent
FmtFloat(m, e) ==
    LET d == FmtNat(IF m < 0 THEN 0 - m ELSE m)
        sign == IF m < 0 THEN <<"-">> ELSE <<>>
        k == 0 - e
    IN  IF e >= 0 THEN sign \o d \o Repeat(<<"0">>, e)
        ELSE IF Len(d) > k
        THEN sign \o SubSeq(d, 1, Len(d) - k) \o <<".">> \o SubSeq(d, Len(d) - k + 1, Len(d))
        ELSE sign \o <<"0", ".">> \o Repeat(<<"0">>, k - Len(d)) \o d

RECURSIVE fmt_impl(_, _)

\* The elements of an array, each on its line and followed by a comma
RECURSIVE FmtElems(_, _)
FmtElems(arr, depth) ==
    IF arr = <<>> THEN <<>>
    ELSE print_indent(depth + 1) \o fmt_impl(Head(arr), depth + 1) \o <<",", NL>>
         \o FmtElems(Tail(arr), depth)

\* The members of an object, a comma after each but the last
RECURSIVE FmtMembers(_, _)
FmtMembers(obj, depth) ==
    IF obj = <<>> THEN <<>>
    ELSE print_indent(depth + 1) \o <<QUOTE>> \o Head(obj)[1] \o <<QUOTE, ":", SP>>
         \o fmt_impl(Head(obj)[2], depth + 1)
         \o (IF Len(obj) # 1 THEN <<",">> ELSE <<>>) \o <<NL>>
         \o FmtMembers(Tail(obj), depth)

fmt_impl(v, depth) ==
    CASE v.t = "Array" ->
           <<"[">>
           \o (IF v.a # <<>> THEN <<NL>> \o FmtElems(v.a, depth) \o print_indent(depth)
               ELSE <<>>)
           \o <<"]">>
      [] v.t = "Object" ->
           <<"{">>
           \o (IF v.o # <<>> THEN <<NL>> \o FmtMembers(v.o, depth) ELSE <<>>)
           \o print_indent(depth) \o <<"}">>
      [] v.t = "String" -> <<QUOTE>> \o v.s \o <<QUOTE>>
      [] v.t = "Boolean" -> IF v.b THEN Chars_true ELSE Chars_false
      [] v.t = "Null" -> Chars_null
      [] v.t = "Number" ->
           CASE v.sub = "Float" /\ "inf" \in DOMAIN v ->
                  IF v.inf THEN <<"-", "i", "n", "f">> ELSE <<"i", "n", "f">>
             [] v.sub = "Float" -> FmtFloat(v.m, v.e)
             [] v.sub = "UnsignedInt" -> v.n
             [] v.sub = "SignedInt" -> FmtInt(v.neg, v.n)

\* Display::fmt
fmt(v) == fmt_impl(v, 0)

----------------------------------------------------------------------------
(* The parser, one loop iteration of parse_object / parse_array at a time *)

\* A call of parse_object or parse_array: what it has collected, and, while a
\* nested call reads the value of a member, that member's key (<<ident>>)
Frame(kind) == [kind |-> kind, items |-> <<>>, key |-> <<>>]

Top == stack[Len(stack)]

Pop(stk) == SubSeq(stk, 1, Len(stk) - 1)

SetTop(stk, f) == [stk EXCEPT ![Len(stk)] = f]

LastCall(r) == [res |-> r.res, at |-> r.at]

\* The innermost call puts the value v where it was asked for
Put(f, v) ==
    IF f.kind = "Array" THEN [f EXCEPT !.items = Append(@, v)]
    ELSE [f EXCEPT !.items = insert(@, f.key[1], v), !.key = <<>>]

\* parse / parse_object / parse_array end with `out` (Ok, Err or a panic of
\* the whole call chain)
Finish(out) ==
    /\ stack' = <<>>
    /\ result' = out

\* A faulty Return: the root call also wants the input to end at its bracket.
Return_ExpectEnd(v) ==
    IF Len(stack) = 1
    THEN Finish(IF tokenizer'.pos = Len(src) THEN Ok(v)
                ELSE ParsingError("UnexpectedToken", cur_loc(tokenizer')))
    ELSE /\ stack' = SetTop(Pop(stack), Put(Pop(stack)[Len(stack) - 1], v))
         /\ result' = result

\* The innermost call returns Ok(v) to its caller
Return(v) ==
    IF Len(stack) = 1 THEN Finish(Ok(v))
    ELSE /\ stack' = SetTop(Pop(stack), Put(Pop(stack)[Len(stack) - 1], v))
         /\ result' = result

\* What the innermost call does with `out`, the outcome of parse_val; key is
\* <<ident>> in parse_object and <<>> in parse_array
Take(out, key) ==
    CASE out.tag = "ok" ->
           /\ stack' = SetTop(stack, Put([Top EXCEPT !.key = key], out.val))
           /\ result' = result
      [] out.tag = "call" ->
           /\ stack' = Append(SetTop(stack, [Top EXCEPT !.key = key]), Frame(out.kind))
           /\ result' = result
      [] OTHER -> Finish(out)

\* parse, after its next_token call r
Root(r) ==
    /\ tokenizer' = r.tk
    /\ last' = LastCall(r)
    /\ CASE r.res.tag # "ok" -> Finish(r.res)
         [] r.res.tag = "ok" /\ r.res.kind = "OpenBracket" ->
              stack' = <<Frame("Object")>> /\ result' = result
         [] r.res.tag = "ok" /\ r.res.kind = "OpenSqBracket" ->
              stack' = <<Frame("Array")>> /\ result' = result
         [] OTHER -> Finish(ParsingError("InvalidStartingToken", r.res.loc))

\* parse
Parse ==
    /\ mode = "parse" /\ result.tag = "none" /\ stack = <<>>
    /\ Root(next_token(src, tokenizer))
    /\ UNCHANGED <<src, mode, pass, first, doc>>

\* The Ident arm of parse_object: parse_ident returned p
Member(ident, p) ==
    /\ tokenizer' = p.tk
    /\ last' = LastCall(p.call)
    /\ Take(p.out, <<ident>>)

\* The loop body of parse_object, after its next_token call r
ObjectLoop(r) ==
    CASE r.res.tag # "ok" ->
           tokenizer' = r.tk /\ last' = LastCall(r) /\ Finish(r.res)
      [] r.res.tag = "ok" /\ r.res.kind = "ClosedBracket" ->
           tokenizer' = r.tk /\ last' = LastCall(r) /\ Return(JObject(Top.items))
      [] r.res.tag = "ok" /\ r.res.kind = "Ident" ->
           Member(r.res.text, parse_ident(src, r.tk))
      [] r.res.tag = "ok" /\ r.res.kind = "Comma" ->
           tokenizer' = r.tk /\ last' = LastCall(r) /\ UNCHANGED <<stack, result>>
      [] OTHER ->
           /\ tokenizer' = r.tk /\ last' = LastCall(r)
           /\ Finish(ParsingError("UnexpectedToken", r.res.loc))

\* One iteration of the loop of parse_object
ParseObjectStep ==
    /\ mode = "parse" /\ result.tag = "none" /\ stack # <<>> /\ Top.kind = "Object"
    /\ ObjectLoop(next_token(src, tokenizer))
    /\ UNCHANGED <<src, mode, pass, first, doc>>

\* The loop body of parse_array, after its next_token call r
ArrayLoop(r) ==
    /\ tokenizer' = r.tk
    /\ last' = LastCall(r)
    /\ CASE r.res.tag # "ok" -> Finish(r.res)
         [] r.res.tag = "ok" /\ r.res.kind = "ClosedSqBracket" ->
              Return(JArray(Top.items))
         [] r.res.tag = "ok" /\ r.res.kind \in {"OpenBracket", "OpenSqBracket", "Val"} ->
              Take(parse_val(r.res), <<>>)
         [] r.res.tag = "ok" /\ r.res.kind = "Ident" ->
              Finish(ParsingError("InvalidIdentInArray", r.res.loc))
         [] r.res.tag = "ok" /\ r.res.kind = "Comma" ->
              UNCHANGED <<stack, result>>
         [] OTHER -> Finish(ParsingError("UnexpectedToken", r.res.loc))

\* One iteration of the loop of parse_array
ParseArrayStep ==
    /\ mode = "parse" /\ result.tag = "none" /\ stack # <<>> /\ Top.kind = "Array"
    /\ ArrayLoop(next_token(src, tokenizer))
    /\ UNCHANGED <<src, mode, pass, first, doc>>

\* The caller formats the value parse returned and parses that text
Reparse ==
    /\ mode = "parse" /\ pass = 1 /\ result.tag = "ok"
    /\ src' = fmt(result.val)
    /\ tokenizer' = from_str
    /\ last' = [res |-> NoCall, at |-> 0]
    /\ stack' = <<>>
    /\ result' = NoResult
    /\ pass' = 2
    /\ first' = <<result.val>>
    /\ UNCHANGED <<mode, doc>>

\* What may follow the closing bracket of the root in another text
Suffixes == {<<>>, <<"x">>, <<"]">>, <<SP, "{">>, <<QUOTE>>}

\* The caller parses another text, which shares with the first one the
\* characters parse had consumed when it returned Ok
ParseExtended ==
    /\ mode = "parse" /\ pass = 1 /\ result.tag = "ok"
    /\ \E suffix \in Suffixes : src' = SubSeq(src, 1, tokenizer.pos) \o suffix
    /\ tokenizer' = from_str
    /\ last' = [res |-> NoCall, at |-> 0]
    /\ stack' = <<>>
    /\ result' = NoResult
    /\ pass' = 3
    /\ first' = <<result.val, tokenizer.pos>>
    /\ UNCHANGED <<mode, doc>>

\* The caller drives the tokenizer itself
Called(r) == tokenizer' = r.tk /\ last' = LastCall(r)

NextToken ==
    /\ mode = "tokens" /\ last.res.tag # "panic"
    /\ Called(next_token(src, tokenizer))
    /\ UNCHANGED <<src, mode, stack, result, pass, first, doc>>

----------------------------------------------------------------------------
(* The texts the model is run on *)

MaxChunks == 3      \* lexemes in an arbitrary text
MaxLitLen == 4      \* characters in a numeric literal
MaxElems == 2       \* elements of an array of a document
MaxMembers == 3     \* members of an object of a document

SeqsUpTo(S, n) == UNION {[1..k -> S] : k \in 0..n}

RECURSIVE Concat(_)
Concat(ss) == IF ss = <<>> THEN <<>> ELSE Head(ss) \o Concat(Tail(ss))

\* The lexemes arbitrary texts are made of: every character class the
\* tokenizer tells apart, and a few whole strings and words
Lexemes ==
    {<<c>> : c \in {"{", "}", "[", "]", ",", ":", QUOTE, BSLASH, SP, NL,
                    "1", "-", "x", NONASCII}}
    \cup {<<QUOTE, "a", QUOTE>>, <<QUOTE, NL, QUOTE>>, Chars_true, <<"4", "2">>}

Texts == {Concat(ss) : ss \in SeqsUpTo(Lexemes, MaxChunks)}

\* Numeric literals: every text of numeric characters up to MaxLitLen
NumChars == {"1", "0", "-", "+", ".", "e", "E"}

NumLits == SeqsUpTo(NumChars, MaxLitLen) \ {<<>>}

\* Bare words around true, false and null: their prefixes, themselves, and
\* themselves with one character more or one character changed
Keywords == {Chars_true, Chars_false, Chars_null}

Words ==
    {SubSeq(w, 1, k) : w \in Keywords, k \in 1..4}
    \cup {Append(w, c) : w \in Keywords, c \in {"x", "l", "e"}}
    \cup UNION {{[w EXCEPT ![k] = "x"] : k \in 1..Len(w)} : w \in Keywords}

\* A literal as the only element of an array, or the only member of an object
LitText(ctx, lit) ==
    IF ctx = "Array" THEN <<"[">> \o lit \o <<"]">>
    ELSE <<"{", QUOTE, "k", QUOTE, ":">> \o lit \o <<"}">>

\* Documents: trees of scalars (a JSON text with the value it stands for),
\* arrays and objects
Scalar(text, val) == [t |-> "Scalar", text |-> text, val |-> val]

Scalars ==
    { Scalar(Chars_null, JNull),
      Scalar(Chars_true, JBoolean(TRUE)),
      Scalar(Chars_false, JBoolean(FALSE)),
      Scalar(<<"7">>, UnsignedInt(<<"7">>)),
      Scalar(<<"-", "3">>, SignedInt(TRUE, <<"3">>)),
      Scalar(<<"1", ".", "5">>, Float(15, 0 - 1)),
      Scalar(<<QUOTE, "a", QUOTE>>, JString(<<"a">>)),
      Scalar(<<QUOTE, BSLASH, QUOTE, QUOTE>>, JString(<<BSLASH, QUOTE>>)),
      Scalar(<<QUOTE, BSLASH, BSLASH, QUOTE>>, JString(<<BSLASH, BSLASH>>)) }

Seven == Scalar(<<"7">>, UnsignedInt(<<"7">>))

Inner ==
    { JArray(<<>>), JObject(<<>>), JArray(<<Seven>>),
      JObject(<< <<(<<"a">>), Scalar(Chars_null, JNull)>> >>) }

Keys == {<<"a">>, <<"b">>}

MemberVals ==
    { Seven, Scalar(<<QUOTE, "a", QUOTE>>, JString(<<"a">>)),
      Scalar(Chars_null, JNull), JArray(<<>>),
      JObject(<< <<(<<"a">>), Seven>> >>) }

Trees ==
    {JArray(a) : a \in SeqsUpTo(Scalars \cup Inner, MaxElems)}
    \cup {JObject(o) : o \in SeqsUpTo(Keys \X MemberVals, MaxMembers)}

\* The JSON text of a document, `sep` after every token
RECURSIVE Write(_, _)
RECURSIVE WriteElems(_, _)
WriteElems(a, sep) ==
    IF a = <<>> THEN <<>>
    ELSE Write(Head(a), sep)
         \o (IF Len(a) > 1 THEN <<",">> \o sep ELSE <<>>)
         \o WriteElems(Tail(a), sep)

RECURSIVE WriteMembers(_, _)
WriteMembers(o, sep) ==
    IF o = <<>> THEN <<>>
    ELSE <<QUOTE>> \o Head(o)[1] \o <<QUOTE>> \o sep \o <<":">> \o sep
         \o Write(Head(o)[2], sep)
         \o (IF Len(o) > 1 THEN <<",">> \o sep ELSE <<>>)
         \o WriteMembers(Tail(o), sep)

Write(d, sep) ==
    CASE d.t = "Scalar" -> d.text \o sep
      [] d.t = "Array" -> <<"[">> \o sep \o WriteElems(d.a, sep) \o <<"]">> \o sep
      [] d.t = "Object" -> <<"{">> \o sep \o WriteMembers(d.o, sep) \o <<"}">> \o sep

Seps == {<<>>, <<SP>>, <<NL>>}

----------------------------------------------------------------------------
(* Specifications *)

Fresh(text, m, d) ==
    /\ src = text
    /\ tokenizer = from_str
    /\ last = [res |-> NoCall, at |-> 0]
    /\ mode = m
    /\ stack = <<>>
    /\ result = NoResult
    /\ pass = 1
    /\ first = <<>>
    /\ doc = d

NoDoc == [kind |-> "text"]

\* An arbitrary text, tokenized or parsed
InitText == \E text \in Texts, m \in {"tokens", "parse"} : Fresh(text, m, NoDoc)

\* A literal in an array or an object, parsed
InitLit ==
    \E lit \in NumLits \cup Words, ctx \in {"Array", "Object"} :
        Fresh(LitText(ctx, lit), "parse", [kind |-> "lit", ctx |-> ctx, text |-> lit])

\* A well-formed document, parsed
InitDoc ==
    \E d \in Trees, sep \in Seps :
        Fresh(Write(d, sep), "parse", [kind |-> "tree", tree |-> d, sep |-> sep])

\* A quoted string before a colon, directly inside an array: alone, after an
\* element, after a string holding a newline, or in a nested array
IdentPres == {<<>>, <<"7", ",">>, <<QUOTE, NL, QUOTE, ",">>, <<"[">>}

IdentStrs ==
    { <<QUOTE, "a", QUOTE>>, <<QUOTE, NL, QUOTE>>,
      <<QUOTE, BSLASH, QUOTE, QUOTE>>, <<QUOTE, BSLASH, BSLASH, QUOTE>> }

IdentText(pre, str, sep, rest) ==
    <<"[">> \o pre \o sep \o str \o sep \o <<":">> \o rest

InitIdent ==
    \E pre \in IdentPres, str \in IdentStrs, sep \in Seps, rest \in {<<>>, <<"1", "]">>} :
        Fresh(IdentText(pre, str, sep, rest), "parse",
              [kind |-> "ident", at |-> 2 + Len(pre) + Len(sep), str |-> str])

\* A literal with whitespace between two of its characters, in an array or
\* an object, tokenized or parsed
SplitWords == {Chars_true, Chars_null, <<"-", "1", "2">>, <<"1", "2">>}

InitSplit ==
    \E w \in SplitWords, ws \in {<<SP>>, <<NL>>}, ctx \in {"Array", "Object"},
       m \in {"tokens", "parse"} :
        \E k \in 1..(Len(w) - 1) :
            Fresh(LitText(ctx, SubSeq(w, 1, k) \o ws \o SubSeq(w, k + 1, Len(w))), m,
                  [kind |-> "split", ctx |-> ctx, left |-> SubSeq(w, 1, k),
                   right |-> SubSeq(w, k + 1, Len(w))])

Init == InitText \/ InitLit \/ InitDoc \/ InitIdent \/ InitSplit

Next ==
    Parse \/ ParseObjectStep \/ ParseArrayStep \/ Reparse \/ ParseExtended \/ NextToken

Spec == Init /\ [][Next]_vars

----------------------------------------------------------------------------
(* What the source text says, read off the text itself *)

\* The 1-based line and column of the character at index i of s
TrueLoc(s, i) ==
    LET nls == {j \in 1..(i - 1) : s[j] = NL}
        lastNl == IF nls = {} THEN 0 ELSE CHOOSE j \in nls : \A k \in nls : k <= j
    IN  [col |-> i - lastNl, line |-> 1 + Cardinality(nls)]

\* The index of the first character after index i that is no whitespace, or 0
NextSigIndex(s, i) ==
    LET sig == {j \in (i + 1)..Len(s) : ~IsWhitespace(s[j])}
    IN  IF sig = {} THEN 0 ELSE CHOOSE j \in sig : \A k \in sig : j <= k

\* That character, as <<c>>, or <<>> at the end of the text
NextSig(s, i) == IF NextSigIndex(s, i) = 0 THEN <<>> ELSE <<s[NextSigIndex(s, i)]>>

FirstSig(s) == NextSig(s, 0)

\* The index of the last character of the numeric run that starts at i
NumRunEnd(s, i) ==
    CHOOSE j \in i..Len(s) :
        /\ \A k \in (i + 1)..j : is_num_char(s[k])
        /\ (j = Len(s) \/ ~is_num_char(s[j + 1]))

\* The index of the last character before the first `,` `}` `]` after i
WordRunEnd(s, i) ==
    CHOOSE j \in i..Len(s) :
        /\ \A k \in (i + 1)..j : ~IsDelimiter(s[k])
        /\ (j = Len(s) \/ IsDelimiter(s[j + 1]))

StartsWord(c) == IsAscii(c) /\ ~IsDigit(c) /\ c \notin {"{", "}", "[", "]", ":", ",", QUOTE}

\* The first non-whitespace character after the run that starts at i
AfterRun(s, i) ==
    IF IsDigit(s[i]) THEN NextSig(s, NumRunEnd(s, i)) ELSE NextSig(s, WordRunEnd(s, i))

Delimited(s, i) == AfterRun(s, i) # <<>> /\ IsDelimiter(AfterRun(s, i)[1])

\* The value a document stands for: the members of an object in the order of
\* the first occurrence of their keys, each with the value of its last one
RECURSIVE Expected(_)
ExpectedMembers(o) ==
    LET firsts == SelectSeq([i \in 1..Len(o) |-> i],
                            LAMBDA i : \A j \in 1..(i - 1) : o[j][1] # o[i][1])
        lastOf(k) == CHOOSE i \in 1..Len(o) :
                        o[i][1] = k /\ \A j \in (i + 1)..Len(o) : o[j][1] # k
    IN  [n \in 1..Len(firsts) |->
            <<o[firsts[n]][1], Expected(o[lastOf(o[firsts[n]][1])][2])>>]

Expected(d) ==
    CASE d.t = "Scalar" -> d.val
      [] d.t = "Array" -> JArray([i \in 1..Len(d.a) |-> Expected(d.a[i])])
      [] d.t = "Object" -> JObject(ExpectedMembers(d.o))

RECURSIVE DistinctKeys(_)
DistinctKeys(d) ==
    CASE d.t = "Scalar" -> TRUE
      [] d.t = "Array" -> \A i \in 1..Len(d.a) : DistinctKeys(d.a[i])
      [] d.t = "Object" ->
           /\ \A i, j \in 1..Len(d.o) : i # j => d.o[i][1] # d.o[j][1]
           /\ \A i \in 1..Len(d.o) : DistinctKeys(d.o[i][2])

RECURSIVE NoFloat(_)
NoFloat(v) ==
    CASE v.t = "Number" -> v.sub # "Float"
      [] v.t = "Array" -> \A i \in 1..Len(v.a) : NoFloat(v.a[i])
      [] v.t = "Object" -> \A i \in 1..Len(v.o) : NoFloat(v.o[i][2])
      [] OTHER -> TRUE

\* parse has returned (or aborted) on the text it was given
Parsed == mode = "parse" /\ pass = 1 /\ result.tag # "none"

----------------------------------------------------------------------------
(* C1 *)

\* C1: for every well-formed document whose root is an object or an array,
\* strings with the escapes \" and \\ included, parse returns Ok and the tree
\* has the document's nesting, member counts, keys, lengths and scalars.
C1_ParseMatchesDocument ==
    (Parsed /\ doc.kind = "tree" /\ DistinctKeys(doc.tree))
        => result = Ok(Expected(doc.tree))

(* C2 *)

\* C2: formatting a parsed value (no Float in it) with Display and parsing
\* that text succeeds and yields an equal value.
C2_RoundTrip ==
    (mode = "parse" /\ pass = 2 /\ result.tag # "none" /\ NoFloat(first[1]))
        => result = Ok(first[1])

(* C3 *)

\* C3: parse is total: on every text it returns Ok or Err and never aborts;
\* the end of input inside a quoted run is a ParsingError of next_token.
C3_ParseNeverAborts ==
    /\ result.tag \in {"none", "ok", "err"}
    /\ last.res.tag \in {"none", "ok", "err"}

(* C4 *)

\* parse has returned from its first next_token call without entering
\* parse_object or parse_array
RootRejected == Parsed /\ FirstSig(src) \notin {<<"{">>, <<"[">>}

\* C4: every document whose first significant content is not `{`
\* or `[` makes parse fail with InvalidStartingToken (a parse that aborts
\* is left to C3).
C4_AlwaysInvalidStartingToken ==
    (RootRejected /\ result.tag \in {"ok", "err"}) =>
        (result.tag = "err" /\ result.kind = "InvalidStartingToken")

(* C5 *)

\* next_token was called on a comma whose next non-whitespace character is
\* a closing brace or bracket
AtTrailingComma ==
    /\ last.at > 0
    /\ src[last.at] = ","
    /\ NextSig(src, last.at) \in {<<"}">>, <<"]">>}

\* C5: whenever a comma's next non-whitespace character is `}` or `]`,
\* next_token (and so parse) fails with InvalidTrailingComma at the line and
\* column of the comma itself.
C5_TrailingCommaAtComma ==
    AtTrailingComma =>
        /\ last.res = ParsingError("InvalidTrailingComma", TrueLoc(src, last.at))
        /\ mode = "parse" => result = last.res

(* C6 *)

IsNumeric(t) == \A i \in 1..Len(t) : is_num_char(t[i])

\* The JSON number grammar: -? (0 | [1-9][0-9]*) (. [0-9]+)? ([eE] [+-]? [0-9]+)?
IsJsonNumber(t) ==
    LET u == IF t[1] = "-" THEN Tail(t) ELSE t
        isInt(x) == x # <<>> /\ AllDigits(x) /\ (Len(x) = 1 \/ x[1] # "0")
        isFrac(x) == x = <<>> \/ (Len(x) >= 2 /\ x[1] = "." /\ AllDigits(Tail(x)))
        isExp(x) ==
            \/ x = <<>>
            \/ /\ Len(x) >= 2 /\ x[1] \in {"e", "E"}
               /\ \/ AllDigits(Tail(x))
                  \/ Len(x) >= 3 /\ x[2] \in {"+", "-"} /\ AllDigits(Tail(Tail(x)))
    IN  \E a \in 1..Len(u), b \in 1..Len(u) :
            /\ a <= b
            /\ isInt(SubSeq(u, 1, a))
            /\ isFrac(SubSeq(u, a + 1, b))
            /\ isExp(SubSeq(u, b + 1, Len(u)))

\* The sub-type the shape of a numeric text asks for
ShapeOf(t) ==
    IF \E i \in 1..Len(t) : t[i] \in {".", "e", "E"} THEN "Float"
    ELSE IF t[1] = "-" THEN "SignedInt"
    ELSE "UnsignedInt"

\* The one value of the array or object a literal was parsed in
OnlyValue(v, ctx) == IF ctx = "Array" THEN v.a[1] ELSE v.o[1][2]

HoldsOne(v, ctx) ==
    IF ctx = "Array" THEN v.t = "Array" /\ Len(v.a) = 1
    ELSE v.t = "Object" /\ Len(v.o) = 1 /\ v.o[1][1] = <<"k">>

\* C6: a literal of numeric characters only, in an array or an object,
\* becomes a Float when it holds `.`, `e` or `E`, else a SignedInt when it
\* starts with `-`, else an UnsignedInt; a text that does not parse as that
\* sub-type is an InvalidToken, and every JSON number does parse.
C6_SubtypeByShape ==
    (Parsed /\ doc.kind = "lit" /\ IsNumeric(doc.text)) =>
        /\ result.tag \in {"ok", "err"}
        /\ result.tag = "ok" =>
              /\ HoldsOne(result.val, doc.ctx)
              /\ OnlyValue(result.val, doc.ctx).t = "Number"
              /\ OnlyValue(result.val, doc.ctx).sub = ShapeOf(doc.text)
        /\ result.tag = "err" => result.kind = "InvalidToken"
        /\ IsJsonNumber(doc.text) => result.tag = "ok"

\* A negative literal, read by the bare-word branch, has become a SignedInt
C6_Witness ==
    /\ Parsed /\ doc.kind = "lit" /\ doc.text = <<"-", "1">>
    /\ result.tag = "ok"
    /\ OnlyValue(result.val, doc.ctx) = SignedInt(TRUE, <<"1">>)

(* C7 *)

InContext(v, ctx) ==
    IF ctx = "Array" THEN JArray(<<v>>) ELSE JObject(<< <<(<<"k">>), v>> >>)

\* C7: a literal that is neither quoted nor numeric is Boolean(true) only
\* for `true`, Boolean(false) only for `false`, Null only for `null`, and an
\* InvalidToken for every other text.
C7_ExactKeywords ==
    (Parsed /\ doc.kind = "lit" /\ ~IsNumeric(doc.text)) =>
        CASE doc.text = Chars_true -> result = Ok(InContext(JBoolean(TRUE), doc.ctx))
          [] doc.text = Chars_false -> result = Ok(InContext(JBoolean(FALSE), doc.ctx))
          [] doc.text = Chars_null -> result = Ok(InContext(JNull, doc.ctx))
          [] OTHER -> result.tag = "err" /\ result.kind = "InvalidToken"

(* C8 *)

\* C8: an object parsed from a sequence of members holds one entry for each
\* distinct key, with the value of the key's last occurrence, in the order of
\* the keys' first occurrences.
C8_LastWriteWinsFirstOrder ==
    (Parsed /\ doc.kind = "tree" /\ doc.tree.t = "Object") =>
        /\ result.tag = "ok"
        /\ result.val = JObject(ExpectedMembers(doc.tree.o))

\* An object written b, a, b has been parsed into two entries
C8_Witness ==
    /\ Parsed /\ doc.kind = "tree" /\ doc.tree.t = "Object"
    /\ [i \in 1..Len(doc.tree.o) |-> doc.tree.o[i][1]] = <<(<<"b">>), (<<"a">>), (<<"b">>)>>
    /\ result.tag = "ok" /\ Len(result.val.o) = 2

(* C9 *)

\* C9: the location of every token next_token returns is the 1-based line
\* and column of the token's first character in the source, and the
\* tokenizer's line and column are those of the last character consumed.
C9_LocationIsSourcePosition ==
    last.res.tag \in {"ok", "err"} =>
        /\ (last.res.tag = "ok" /\ last.at > 0) =>
              last.res.loc = TrueLoc(src, last.at)
        /\ tokenizer.line = 1 + Cardinality({j \in 1..tokenizer.pos : src[j] = NL})
        /\ tokenizer.pos > 0 =>
              tokenizer.col = IF src[tokenizer.pos] = NL THEN 0
                              ELSE TrueLoc(src, tokenizer.pos).col

(* C10 *)

\* next_token was called on the first character of a numeric or bare-word run
AtRun == last.at > 0 /\ (IsDigit(src[last.at]) \/ StartsWord(src[last.at]))

\* C10: after a numeric or bare-word run, next_token returns a Val token
\* only if the next non-whitespace character is `,` `}` or `]`, and fails
\* with MissingEndingComma on any other character or at the end of input.
C10_LiteralNeedsDelimiter ==
    AtRun =>
        IF Delimited(src, last.at)
        THEN /\ last.res.tag = "ok" /\ last.res.kind = "Val"
             /\ tokenizer.pos < Len(src) /\ IsDelimiter(src[tokenizer.pos + 1])
        ELSE last.res.tag = "err" /\ last.res.kind = "MissingEndingComma"

\* A number before a colon has failed with MissingEndingComma
C10_Witness ==
    /\ AtRun /\ mode = "tokens"
    /\ IsDigit(src[last.at])
    /\ AfterRun(src, last.at) = <<":">>
    /\ last.res.tag = "err" /\ last.res.kind = "MissingEndingComma"

(* C11 *)

\* C11: inside an array, a quoted string whose next non-whitespace character
\* is `:` is tokenized as an Ident, and parse fails with InvalidIdentInArray
\* at the line and column of the string's opening quote; no array is returned.
C11_IdentInArrayRejected ==
    (Parsed /\ doc.kind = "ident") =>
        /\ last.at = doc.at
        /\ last.res.tag = "ok" /\ last.res.kind = "Ident"
        /\ result = ParsingError("InvalidIdentInArray", TrueLoc(src, doc.at))

(* C12 *)

\* C12: the text of every Val token is the contiguous run of source
\* characters that starts at the token's first character: no character is
\* added, removed or joined across whitespace.
C12_TextPreserving ==
    (last.res.tag = "ok" /\ last.res.kind = "Val") =>
        /\ last.at > 0
        /\ last.at + Len(last.res.text) - 1 <= Len(src)
        /\ last.res.text = SubSeq(src, last.at, last.at + Len(last.res.text) - 1)

(* C13 *)

\* C13: parse returns Ok with the closing bracket of the root the last
\* character consumed, and a text that shares the characters up to and
\* including that bracket gives the same Ok value, whatever follows it (also
\* nothing), without a character after the bracket being consumed.
C13_ReturnsAtClosingBracket ==
    /\ (mode = "parse" /\ result.tag = "ok") =>
          /\ last.at = tokenizer.pos
          /\ last.res.kind \in {"ClosedBracket", "ClosedSqBracket"}
          /\ src[tokenizer.pos] \in {"}", "]"}
    /\ (mode = "parse" /\ pass = 3) =>
          /\ tokenizer.pos <= first[2]
          /\ result.tag # "none" =>
                (result = Ok(first[1]) /\ tokenizer.pos = first[2])

\* A text with an x after the closing bracket of the root has been parsed
\* to the value of a first text that is not empty
C13_Witness ==
    /\ mode = "parse" /\ pass = 3 /\ result.tag = "ok"
    /\ Len(src) = first[2] + 1 /\ src[Len(src)] = "x"
    /\ result.val.t = "Object" /\ Len(result.val.o) = 2

====
